---------------------------- MODULE Spec2Model ----------------------------
(***************************************************************************)
(* Model of lofi_convert_from_url.py: one run of main(), i.e. download,    *)
(* WAV conversion, split_audio_segments, process_segments_with_musicgen    *)
(* and concat_segments, over the files of the output directory.            *)
(*                                                                         *)
(* Audio lengths are counted in samples of the 32 kHz mono WAV that        *)
(* ffmpeg_to_wav produces.  A segment file part_NNN.wav is identified by   *)
(* its number NNN; its file name is modelled as the character codes of     *)
(* the formatted number followed by ".wav", because the order of the list  *)
(* that split_audio_segments returns is the order of the file names.       *)
(*                                                                         *)
(* External tools (yt-dlp, ffmpeg, torch, MusicGen) are modelled by what   *)
(* the script observes of them: success or a raised exception, and the     *)
(* files they leave behind.                                                *)
(***************************************************************************)
EXTENDS Integers, Sequences, FiniteSets

VARIABLES
    pc,               \* position of main()
    srcLen,           \* length in samples of downloaded.wav (fixed by the URL)
    segment_time,     \* args.segment
    download_only,    \* args.download_only
    seg_dir,          \* outdir/segments: part number -> length in samples
    segments,         \* list returned by split_audio_segments (part numbers)
    device,           \* device selected in process_segments_with_musicgen
    deviceSelections, \* number of torch.device(...) selections in this run
    modelLoads,       \* number of MusicGen.get_pretrained calls in this run
    model,            \* handle of the model instance bound to `model`
    i,                \* position of the for loop over segment_paths
    genLog,           \* one record per generation call made
    out_paths,        \* out_paths of process_segments_with_musicgen
    lofi_dir,         \* outdir/lofi_segments: part number -> length in samples
    final,            \* entries concatenated into lofi_full.wav
    finalWritten,     \* lofi_full.wav was written by this run
    error             \* exception that left main(), if any

vars == <<pc, srcLen, segment_time, download_only, seg_dir, segments, device,
          deviceSelections, modelLoads, model, i, genLog, out_paths, lofi_dir,
          final, finalWritten, error>>

---------------------------------------------------------------------------
(* Program constants *)

\* sample_rate=32000 passed to ffmpeg_to_wav
SampleRate == 32000

\* minimum field width of the segment number in "part_%03d.wav"
PadWidth == 3

\* Samples per packet of the WAV demuxer that feeds "-f segment -c copy":
\* 4096 bytes of 16-bit mono PCM.  The segment muxer can only cut between
\* packets.
PacketSamples == 4096 \div 2

(* Bounds of the model *)

\* short sources are 1..MaxHalfSecs half seconds long
MaxHalfSecs == 7

\* window lengths are -1..MaxWindow seconds
MaxWindow == 2

\* one long source, split into more than 10^PadWidth one-second segments
LongSecs == 1001

---------------------------------------------------------------------------
(* Helpers *)

Min(a, b) == IF a < b THEN a ELSE b

CeilDiv(a, b) == (a + b - 1) \div b

SetMin(S) == CHOOSE x \in S : \A y \in S : x <= y

RECURSIVE SumRange(_, _, _)
\* s[lo] + ... + s[hi]
SumRange(s, lo, hi) ==
    IF lo > hi THEN 0
    ELSE IF lo = hi THEN s[lo]
    ELSE SumRange(s, lo, (lo + hi) \div 2)
         + SumRange(s, (lo + hi) \div 2 + 1, hi)

SumSeq(s) == SumRange(s, 1, Len(s))

Abs(x) == IF x < 0 THEN 0 - x ELSE x

---------------------------------------------------------------------------
(* File names: outdir / "part_%03d.wav" *)

RECURSIVE Digits(_)
\* decimal digits of k >= 0, most significant first
Digits(k) == IF k < 10 THEN <<k>> ELSE Digits(k \div 10) \o <<k % 10>>

RECURSIVE ZeroPad(_, _)
\* printf's %0<w>d: zeros prepended up to width w, never truncated
ZeroPad(d, w) == IF Len(d) >= w THEN d ELSE ZeroPad(<<0>> \o d, w)

\* character codes of "NNN.wav" (the common prefix "part_" is left out)
PartName(k) ==
    [p \in 1..Len(ZeroPad(Digits(k), PadWidth)) |->
        48 + ZeroPad(Digits(k), PadWidth)[p]] \o <<46, 119, 97, 118>>

\* str.__lt__: the first differing character decides, else the shorter string
StrLess(a, b) ==
    LET m == Min(Len(a), Len(b))
        diff == {p \in 1..m : a[p] # b[p]}
    IN  IF diff = {} THEN Len(a) < Len(b)
        ELSE a[SetMin(diff)] < b[SetMin(diff)]

\* number of names that sort before name[k]
NameRank(name, k) ==
    Cardinality({j \in DOMAIN name : StrLess(name[j], name[k])})

\* the sequence that lists the keys of rank by ascending rank
ByRank(rank) ==
    [p \in 1..Cardinality(DOMAIN rank) |->
        CHOOSE k \in DOMAIN rank : rank[k] = p - 1]

\* the part numbers of the files named name[k], in file-name order
SortNames(name) == ByRank([k \in DOMAIN name |-> NameRank(name, k)])

\* sorted(outdir.glob("part_*.wav")): the part numbers S in file-name order
SortedGlob(S) == SortNames([k \in S |-> PartName(k)])

---------------------------------------------------------------------------
(* ffmpeg -f segment -segment_time W -c copy *)

\* number of packets of a source of D samples
NumPackets(D) == CeilDiv(D, PacketSamples)

\* first sample of segment k: the first packet whose timestamp is not before
\* k * W seconds; with W <= 0 every packet starts a new segment
SegStart(W, k) ==
    IF W <= 0 THEN k * PacketSamples
    ELSE CeilDiv(k * W * SampleRate, PacketSamples) * PacketSamples

\* number of segment files written for a source of D samples
NumSegs(D, W) ==
    IF W <= 0 THEN NumPackets(D)
    ELSE ((NumPackets(D) - 1) * PacketSamples) \div (W * SampleRate) + 1

\* the files part_000.wav, part_001.wav, ... that one ffmpeg run writes
SegmentFiles(D, W) ==
    [k \in 0..(NumSegs(D, W) - 1) |->
        Min(SegStart(W, k + 1), D) - SegStart(W, k)]

\* files of dir, with those that the run writes created or overwritten (-y)
WriteFiles(dir, new) ==
    [k \in (DOMAIN dir) \cup (DOMAIN new) |->
        IF k \in DOMAIN new THEN new[k] ELSE dir[k]]

EmptyDir == [k \in {} |-> 0]

---------------------------------------------------------------------------
(* Inputs *)

ShortLens == {h * (SampleRate \div 2) : h \in 1..MaxHalfSecs}

Windows == (0 - 1)..MaxWindow

\* what an earlier run on the same --output-dir can have left in segments/
PriorDirs ==
    {EmptyDir} \cup {SegmentFiles(D, W) : D \in ShortLens, W \in 1..MaxWindow}

NoError == [kind |-> "none", indices |-> {}]

\* An exception is not wrapped or annotated anywhere in the script: what
\* reaches the caller is the exception as raised, which carries no segment
\* index.
Raised(kind) == [kind |-> kind, indices |-> {}]

Init ==
    /\ pc = "start"
    /\ \/ /\ srcLen \in ShortLens
          /\ segment_time \in Windows
          /\ seg_dir \in PriorDirs
       \/ /\ srcLen = LongSecs * SampleRate
          /\ segment_time = 1
          /\ seg_dir = EmptyDir
    /\ download_only \in BOOLEAN
    /\ segments = <<>>
    /\ device = "none"
    /\ deviceSelections = 0
    /\ modelLoads = 0
    /\ model = 0
    /\ i = 0
    /\ genLog = <<>>
    /\ out_paths = <<>>
    /\ lofi_dir = EmptyDir
    /\ final = <<>>
    /\ finalWritten = FALSE
    /\ error = NoError

---------------------------------------------------------------------------
(* main() *)

\* an exception leaves main(): nothing after the raising statement runs
Abort(kind) ==
    /\ pc' = "failed"
    /\ error' = Raised(kind)

\* [1/6] download_audio succeeds
Download ==
    /\ pc = "start"
    /\ pc' = "downloaded"
    /\ UNCHANGED <<srcLen, segment_time, download_only, seg_dir, segments,
                   device, deviceSelections, modelLoads, model, i, genLog,
                   out_paths, lofi_dir, final, finalWritten, error>>

\* [1/6] download_audio raises (yt-dlp error, FileNotFoundError)
DownloadFail ==
    /\ pc = "start"
    /\ Abort("DownloadError")
    /\ UNCHANGED <<srcLen, segment_time, download_only, seg_dir, segments,
                   device, deviceSelections, modelLoads, model, i, genLog,
                   out_paths, lofi_dir, final, finalWritten>>

\* [2/6] ffmpeg_to_wav succeeds
ToWav ==
    /\ pc = "downloaded"
    /\ pc' = "converted"
    /\ UNCHANGED <<srcLen, segment_time, download_only, seg_dir, segments,
                   device, deviceSelections, modelLoads, model, i, genLog,
                   out_paths, lofi_dir, final, finalWritten, error>>

\* [2/6] ffmpeg exits non-zero: subprocess.run(check=True) raises
ToWavFail ==
    /\ pc = "downloaded"
    /\ Abort("CalledProcessError")
    /\ UNCHANGED <<srcLen, segment_time, download_only, seg_dir, segments,
                   device, deviceSelections, modelLoads, model, i, genLog,
                   out_paths, lofi_dir, final, finalWritten>>

\* if args.download_only: return
DownloadOnlyReturn ==
    /\ pc = "converted"
    /\ download_only
    /\ pc' = "returned"
    /\ UNCHANGED <<srcLen, segment_time, download_only, seg_dir, segments,
                   device, deviceSelections, modelLoads, model, i, genLog,
                   out_paths, lofi_dir, final, finalWritten, error>>

\* [3/6] split_audio_segments: ffmpeg writes the segment files into
\* outdir/segments and the sorted glob of that directory is returned.
\* segment_time is handed to ffmpeg as it came from the command line.
SplitAudioSegments ==
    /\ pc = "converted"
    /\ ~download_only
    /\ seg_dir' = WriteFiles(seg_dir, SegmentFiles(srcLen, segment_time))
    /\ segments' = SortedGlob(DOMAIN seg_dir')
    /\ pc' = "segmented"
    /\ UNCHANGED <<srcLen, segment_time, download_only, device,
                   deviceSelections, modelLoads, model, i, genLog, out_paths,
                   lofi_dir, final, finalWritten, error>>

\* [3/6] ffmpeg exits non-zero: subprocess.run(check=True) raises
SplitFail ==
    /\ pc = "converted"
    /\ ~download_only
    /\ Abort("CalledProcessError")
    /\ UNCHANGED <<srcLen, segment_time, download_only, seg_dir, segments,
                   device, deviceSelections, modelLoads, model, i, genLog,
                   out_paths, lofi_dir, final, finalWritten>>

\* [4/6] process_segments_with_musicgen, up to the loop: the device is
\* selected and the model loaded; a failing model.to(device) is ignored
LoadModel ==
    /\ pc = "segmented"
    /\ device' \in {"cuda", "cpu"}
    /\ deviceSelections' = deviceSelections + 1
    /\ modelLoads' = modelLoads + 1
    /\ model' = modelLoads + 1
    /\ i' = 1
    /\ out_paths' = <<>>
    /\ pc' = "generating"
    /\ UNCHANGED <<srcLen, segment_time, download_only, seg_dir, segments,
                   genLog, lofi_dir, final, finalWritten, error>>

\* MusicGen.get_pretrained raises
LoadModelFail ==
    /\ pc = "segmented"
    /\ device' \in {"cuda", "cpu"}
    /\ deviceSelections' = deviceSelections + 1
    /\ Abort("ModelLoadError")
    /\ UNCHANGED <<srcLen, segment_time, download_only, seg_dir, segments,
                   modelLoads, model, i, genLog, out_paths, lofi_dir, final,
                   finalWritten>>

\* duration=int(melody.shape[1] / sr)
GenDuration(samples, sr) == samples \div sr

\* the generation call of loop position p
GenCall(p, ok) ==
    [pos |-> p, seg |-> segments[p],
     duration |-> GenDuration(seg_dir[segments[p]], SampleRate),
     model |-> model, device |-> device, ok |-> ok]

\* one loop iteration that succeeds: the segment is loaded, the model
\* generates `duration` seconds, audio_write stores lofi_<name>
GenerateSegment_ReloadsModel ==
    /\ pc = "generating"
    /\ i <= Len(segments)
    /\ modelLoads' = modelLoads + 1
    /\ model' = modelLoads + 1
    /\ deviceSelections' = deviceSelections + 1
    /\ genLog' = Append(genLog, [GenCall(i, TRUE) EXCEPT !.model = model'])
    /\ lofi_dir' = WriteFiles(lofi_dir,
           [k \in {segments[i]} |->
               GenDuration(seg_dir[segments[i]], SampleRate) * SampleRate])
    /\ out_paths' = Append(out_paths, segments[i])
    /\ i' = i + 1
    /\ UNCHANGED <<pc, srcLen, segment_time, download_only, seg_dir, segments,
                   device, final, finalWritten, error>>

GenerateSegment ==
    /\ pc = "generating"
    /\ i <= Len(segments)
    /\ genLog' = Append(genLog, GenCall(i, TRUE))
    /\ lofi_dir' = WriteFiles(lofi_dir,
           [k \in {segments[i]} |->
               GenDuration(seg_dir[segments[i]], SampleRate) * SampleRate])
    /\ out_paths' = Append(out_paths, segments[i])
    /\ i' = i + 1
    /\ UNCHANGED <<pc, srcLen, segment_time, download_only, seg_dir, segments,
                   device, deviceSelections, modelLoads, model, final,
                   finalWritten, error>>

\* one loop iteration whose generation raises, handled by skipping the segment
GenerateFail_Skips ==
    /\ pc = "generating"
    /\ i <= Len(segments)
    /\ genLog' = Append(genLog, GenCall(i, FALSE))
    /\ i' = i + 1
    /\ UNCHANGED <<pc, srcLen, segment_time, download_only, seg_dir, segments,
                   device, deviceSelections, modelLoads, model, out_paths,
                   lofi_dir, final, finalWritten, error>>

\* one loop iteration whose generation raises: there is no try/except
\* around the loop body, in the function or in main()
GenerateFail ==
    /\ pc = "generating"
    /\ i <= Len(segments)
    /\ genLog' = Append(genLog, GenCall(i, FALSE))
    /\ Abort("GenerationError")
    /\ UNCHANGED <<srcLen, segment_time, download_only, seg_dir, segments,
                   device, deviceSelections, modelLoads, model, i, out_paths,
                   lofi_dir, final, finalWritten>>

\* the loop is exhausted: return out_paths, main() goes on to [5/6]
ReturnOutPaths ==
    /\ pc = "generating"
    /\ i > Len(segments)
    /\ pc' = "concat"
    /\ UNCHANGED <<srcLen, segment_time, download_only, seg_dir, segments,
                   device, deviceSelections, modelLoads, model, i, genLog,
                   out_paths, lofi_dir, final, finalWritten, error>>

\* [5/6] concat_segments: the list file names the paths in list order and
\* ffmpeg concatenates them in that order into lofi_full.wav
ConcatSegments ==
    /\ pc = "concat"
    /\ final' = [p \in 1..Len(out_paths) |->
                    [seg |-> out_paths[p], len |-> lofi_dir[out_paths[p]]]]
    /\ finalWritten' = TRUE
    /\ pc' = "done"
    /\ UNCHANGED <<srcLen, segment_time, download_only, seg_dir, segments,
                   device, deviceSelections, modelLoads, model, i, genLog,
                   out_paths, lofi_dir, error>>

\* [5/6] ffmpeg exits non-zero: subprocess.run(check=True) raises
ConcatFail ==
    /\ pc = "concat"
    /\ Abort("CalledProcessError")
    /\ UNCHANGED <<srcLen, segment_time, download_only, seg_dir, segments,
                   device, deviceSelections, modelLoads, model, i, genLog,
                   out_paths, lofi_dir, final, finalWritten>>

Next ==
    \/ Download
    \/ DownloadFail
    \/ ToWav
    \/ ToWavFail
    \/ DownloadOnlyReturn
    \/ SplitAudioSegments
    \/ SplitFail
    \/ LoadModel
    \/ LoadModelFail
    \/ GenerateSegment
    \/ GenerateFail
    \/ ReturnOutPaths
    \/ ConcatSegments
    \/ ConcatFail

Spec == Init /\ [][Next]_vars

---------------------------------------------------------------------------
(* Observations used by the properties *)

Terminal == {"done", "failed", "returned"}

\* loop positions whose generation call raised
FailedPositions == {p \in 1..Len(genLog) : ~genLog[p].ok}

\* loop positions for which a generation call was made
AttemptedPositions == {genLog[p].pos : p \in 1..Len(genLog)}

\* the returned segments with their lengths
SegmentList == [p \in 1..Len(segments) |->
                   [seg |-> segments[p], len |-> seg_dir[segments[p]]]]

\* what the segmenter yields for (D, W) in an empty output directory
FreshSegmentList(D, W) ==
    [p \in 1..NumSegs(D, W) |->
        [seg |-> SortedGlob(DOMAIN SegmentFiles(D, W))[p],
         len |-> SegmentFiles(D, W)[SortedGlob(DOMAIN SegmentFiles(D, W))[p]]]]

\* durations handed to set_generation_params, in call order
RequestedDurations == [p \in 1..Len(genLog) |-> genLog[p].duration]

\* lengths of the entries of the final track
FinalLens == [p \in 1..Len(final) |-> final[p].len]

StageOf(p) ==
    CASE p \in {"start", "downloaded", "converted"} -> "Idle"
      [] p = "segmented" -> "Segmented"
      [] p = "generating" -> "Generating"
      [] p = "concat" -> "Reassembling"
      [] p = "done" -> "Completed"
      [] p = "failed" -> "Failed"
      [] p = "returned" -> "Returned"

StageEdges ==
    {<<"Idle", "Segmented">>, <<"Idle", "Failed">>, <<"Idle", "Returned">>,
     <<"Segmented", "Generating">>, <<"Segmented", "Failed">>,
     <<"Generating", "Reassembling">>, <<"Generating", "Failed">>,
     <<"Reassembling", "Completed">>, <<"Reassembling", "Failed">>}

---------------------------------------------------------------------------
(* Properties *)

\* C1 (as claimed): when, in a run with a window length > 0, the generation
\* call of a segment that is not the last one has failed and the run has
\* ended, an error is recorded for that segment and generation has been
\* attempted for every later segment.
C1_FailureIsolation ==
    (pc \in Terminal /\ segment_time > 0) =>
        \A p \in FailedPositions :
            genLog[p].pos < Len(segments) =>
                /\ genLog[p].seg \in error.indices
                /\ \A q \in (genLog[p].pos + 1)..Len(segments) :
                       q \in AttemptedPositions

\* C2 (as claimed): in a run with a window length > 0 that completed, the
\* requested durations add up to the source's duration and the final track
\* is as long as the source, within one sample.
C2_DurationPreserved ==
    (pc = "done" /\ segment_time > 0) =>
        /\ Abs(SumSeq(RequestedDurations) * SampleRate - srcLen) <= 1
        /\ Abs(SumSeq(FinalLens) - srcLen) <= 1

\* C3 (as claimed): for a window length W > 0 the returned segments are
\* numbered 0, 1, 2, ... in order, every segment but the last is exactly W
\* seconds long, the last is longer than 0 and at most W seconds, and the
\* lengths add up to the source's length.
C3_SegmentsPartitionSource ==
    (pc = "segmented" /\ segment_time > 0) =>
        /\ Len(segments) >= 1
        /\ \A p \in 1..Len(segments) : segments[p] = p - 1
        /\ \A p \in 1..(Len(segments) - 1) :
               SegmentList[p].len = segment_time * SampleRate
        /\ SegmentList[Len(segments)].len > 0
        /\ SegmentList[Len(segments)].len <= segment_time * SampleRate
        /\ SumSeq([p \in 1..Len(segments) |-> SegmentList[p].len]) = srcLen

\* C4 (as claimed): the returned segments are in ascending segment number,
\* output i is derived from input i, and the final track lists the outputs
\* in that same ascending order.
C4_OrderPreserved ==
    /\ \A p \in 1..(Len(segments) - 1) : segments[p] < segments[p + 1]
    /\ \A p \in 1..Len(out_paths) : out_paths[p] = segments[p]
    /\ finalWritten =>
          /\ Len(final) = Len(segments)
          /\ \A p \in 1..Len(final) : final[p].seg = segments[p]
          /\ \A p \in 1..(Len(final) - 1) : final[p].seg < final[p + 1].seg

\* C5 (as claimed): a run with a window length > 0 in which exactly one
\* generation call failed, for segment k, ends either with no final track and an error that names k, or
\* with a final track built from exactly the other segments in order and k
\* reported as dropped.
C5_FailureOutcomeObservable ==
    (pc \in Terminal /\ segment_time > 0
        /\ Cardinality(FailedPositions) = 1) =>
        LET k == genLog[CHOOSE p \in FailedPositions : TRUE].pos IN
        \/ /\ ~finalWritten
           /\ segments[k] \in error.indices
        \/ /\ finalWritten
           /\ Len(final) = Len(segments) - 1
           /\ \A p \in 1..Len(final) :
                  final[p].seg = segments[IF p < k THEN p ELSE p + 1]
           /\ segments[k] \in error.indices

\* C6: every step of the run stays in its stage or follows one of the edges
\* Idle -> Segmented -> Generating -> Reassembling -> Completed, or leads to
\* a terminal state; reassembly is entered, and the final track written, only
\* when every segment had a generation call that produced an output; nothing
\* changes once a terminal state is reached.
C6_StageOrder ==
    [][ /\ pc \in Terminal => UNCHANGED vars
        /\ StageOf(pc') # StageOf(pc) =>
              <<StageOf(pc), StageOf(pc')>> \in StageEdges
        /\ (StageOf(pc') = StageOf(pc) /\ pc' # pc) => StageOf(pc) = "Idle"
        /\ pc' = "concat" =>
              /\ Len(out_paths') = Len(segments')
              /\ \A q \in 1..Len(segments') :
                    \E p \in 1..Len(genLog') :
                        genLog'[p].pos = q /\ genLog'[p].ok
        /\ (finalWritten' /\ ~finalWritten) =>
              (pc = "concat" /\ pc' = "done")
      ]_vars

\* C6 witness: a run over the several segments of its own source went
\* through every stage and reached Completed
C6_Witness ==
    /\ pc = "done"
    /\ finalWritten
    /\ segment_time > 0
    /\ Len(segments) >= 3
    /\ Len(segments) = NumSegs(srcLen, segment_time)
    /\ Len(final) = Len(segments)

\* C7 (as claimed): with a window length <= 0 the run never gets past the
\* segmenter: nothing is segmented, no model is loaded, no generation call is
\* made, no final track is written and the run does not complete.
C7_WindowValidated ==
    segment_time <= 0 =>
        /\ segments = <<>>
        /\ pc \notin {"segmented", "generating", "concat", "done"}
        /\ deviceSelections = 0
        /\ modelLoads = 0
        /\ genLog = <<>>
        /\ ~finalWritten

\* C8 (as claimed): the sequence returned by the segmenter is determined by
\* the source and the window length alone.
C8_SegmenterDeterministic ==
    pc = "segmented" =>
        SegmentList = FreshSegmentList(srcLen, segment_time)

\* C9: the device is selected at most once and the model loaded at most
\* once; both have happened exactly once when the loop over the segments
\* runs, and every generation call uses that device and that model instance.
C9_SingleModelInstance ==
    /\ deviceSelections <= 1
    /\ modelLoads <= 1
    /\ pc \in {"generating", "concat", "done"} =>
          (deviceSelections = 1 /\ modelLoads = 1)
    /\ \A p \in 1..Len(genLog) :
          /\ modelLoads = 1
          /\ deviceSelections = 1
          /\ genLog[p].model = model
          /\ genLog[p].model = genLog[1].model
          /\ genLog[p].device = device
          /\ genLog[p].device \in {"cuda", "cpu"}

\* C9 witness: several generation calls were made in one run
C9_Witness ==
    /\ segment_time > 0
    /\ Len(genLog) >= 3
    /\ modelLoads = 1
    /\ deviceSelections = 1

\* C10 (as claimed): with a window length > 0, every duration handed to
\* set_generation_params is greater than 0.
C10_PositiveDuration ==
    segment_time > 0 =>
        \A p \in 1..Len(genLog) : genLog[p].duration > 0

===========================================================================
